---- MODULE Spec2Model ----
(***************************************************************************)
(* A model of src/ecogis.py: the LatLonPartition tile scheme and feature   *)
(* classifier, Layer.partition / Source.partition, and the command line    *)
(* and main().                                                             *)
(*                                                                         *)
(* Numbers.  OGR hands extents and envelopes over as floats.  The layer    *)
(* extents and feature envelopes of the model are whole numbers; the only  *)
(* fractional values the code can then produce are the halves of line      *)
(* 78-79 (extent[1] / 2), so every tile bound is stored doubled: the tile  *)
(* bound h stands for the float h/2.  A representative point x (a whole    *)
(* number, line 125-126) is compared with a tile bound h as 2*x against h. *)
(***************************************************************************)
EXTENDS Integers, Sequences, FiniteSets, TLC

\* ---------------------------------------------------------------- bounds
MaxCount == 5
NegCount == 2
MaxX == 4
NegX == 1
MaxY == 3
FlowMaxCount == 4
FlowMaxX == 2
FlowMaxY == 2
MaxFeatures == 2
MaxLayers == 2
MaxSources == 2
MainMaxCoord == 1

\* Optional values: None is the empty tuple, a value v that is there is <<v>>
None == <<>>
Some(v) == <<v>>

\* feature.GetGeometryRef() returned None
NullGeometry == <<>>
NoException == "none"
ZeroDivisionError == "ZeroDivisionError"
IndexError == "IndexError"
KeyError == "KeyError"
NoReturn == <<"nothing returned yet">>
NoLayer == 0

\* ------------------------------------------------------- input domains
Range1(lo, hi) == {r \in (lo..hi) \X (lo..hi) : r[1] <= r[2]}

\* (minX, maxX, minY, maxY) with minX <= maxX and minY <= maxY
Boxes(xlo, xhi, ylo, yhi) ==
  {<<rx[1], rx[2], ry[1], ry[2]>> : rx \in Range1(xlo, xhi), ry \in Range1(ylo, yhi)}

\* the geometries a feature of a layer with this extent can carry: none, or
\* one whose envelope lies inside the layer's extent
Geometries(ext) ==
  {NullGeometry} \cup Boxes(ext[1], ext[2], ext[3], ext[4])

WideExtents == Boxes(0 - NegX, MaxX, 0, MaxY)
FlowExtents == Boxes(0, FlowMaxX, 0, FlowMaxY)
MainExtents == Boxes(0, MainMaxCoord, 0, MainMaxCoord)
Counts == (0 - NegCount)..FlowMaxCount

\* ------------------------------------------------------------ formatting
Digit(d) == <<"0", "1", "2", "3", "4", "5", "6", "7", "8", "9">>[d + 1]

RECURSIVE NatStr(_)
NatStr(n) == IF n < 10 THEN Digit(n) ELSE NatStr(n \div 10) \o Digit(n % 10)

Abs(n) == IF n < 0 THEN 0 - n ELSE n

\* str() of the float h/2, as an f-string renders it: "-0.5", "2.0", "12.5"
FloatStr(h) ==
  (IF h < 0 THEN "-" ELSE "") \o NatStr(Abs(h) \div 2)
     \o (IF Abs(h) % 2 = 1 THEN ".5" ELSE ".0")

\* layer.GetName() of the layer at index l of the data source
GetName(l) == "L" \o NatStr(l)

partition_to_layer_name(l, part) ==
  GetName(l) \o ":" \o FloatStr(part[1]) \o "-" \o FloatStr(part[2])
            \o "-" \o FloatStr(part[3]) \o "-" \o FloatStr(part[4])

\* ------------------------------------------------------ tile scheme
Ceil2(n) == 0 - ((0 - n) \div 2)
Floor2(n) == n \div 2

\* faulty variant of BottomCount: the bottom row rounded up like the top row
BottomCountCeil(n) == Ceil2(n)

\* lines 82-83
TopCount(n) == Ceil2(n)
BottomCount(n) == Floor2(n)

\* one tile of the top row (lines 88-93) and of the bottom row (97-102)
TopTile(ext, dt, x) ==
  << 2 * (ext[1] + x * dt), 2 * (ext[1] + dt * (x + 1)),
     2 * ext[3], 2 * ((ext[4] - ext[3]) \div 2 + ext[3]) >>

BottomTile(ext, db, x) ==
  << 2 * (ext[1] + x * db), 2 * (ext[1] + db * (x + 1)),
     2 * ((ext[4] - ext[3]) \div 2 + ext[3]), 2 * ext[4] >>

\* line 85 or 86 divides by zero
BuildRaises(n) == n # 1 /\ n # 2 /\ (TopCount(n) = 0 \/ BottomCount(n) = 0)

\* what lines 73-104 assign to self.partitions for this extent and count
\* (when they do not raise)
BuildTiles(ext, n) ==
  IF n = 1 THEN << <<2 * ext[1], 2 * ext[2], 2 * ext[3], 2 * ext[4]>> >>
  ELSE IF n = 2 THEN
    << <<2 * ext[1], ext[2], 2 * ext[3], 2 * ext[4]>>,
       <<ext[2], 2 * ext[2], 2 * ext[3], 2 * ext[4]>> >>
  ELSE
    LET top == TopCount(n)
        bottom == BottomCount(n)
        dt == (ext[2] - ext[1]) \div top
        db == (ext[2] - ext[1]) \div bottom
    IN [i \in 1..top |-> TopTile(ext, dt, i - 1)]
         \o [i \in 1..bottom |-> BottomTile(ext, db, i - 1)]

\* ------------------------------------------------------ classifier
\* the representative point of an envelope (lines 123-126), floor division
MidX(env) == (env[1] + env[2]) \div 2
MidY(env) == (env[3] + env[4]) \div 2

\* faulty variant of InTile: closed on the low side too
InTileClosed(part, px, py) ==
  part[1] <= px /\ px <= part[2] /\ part[3] <= py /\ py <= part[4]

\* line 130: pMinX < x <= pMaxX and pMinY < y <= pMaxY, for the point
\* (px/2, py/2): like the tile bounds, px and py are doubled
InTile(part, px, py) ==
  part[1] < px /\ px <= part[2] /\ part[3] < py /\ py <= part[4]

\* the tiles that hold the representative point (x, y)
Matching(parts, x, y) == {i \in 1..Len(parts) : InTile(parts[i], 2 * x, 2 * y)}

Min(S) == CHOOSE m \in S : \A k \in S : m <= k

\* faulty variant of ChosenTile: falls back to the first tile
ChosenTileFirstFallback(parts, env) ==
  LET m == Matching(parts, MidX(env), MidY(env))
  IN IF m # {} THEN Min(m) ELSE 1

\* the index of the tile lines 128-136 yield for a feature with this
\* envelope: the first match of the scan, else the last tile (0: the scheme
\* is empty and self.partitions[-1] raises IndexError)
ChosenTile(parts, env) ==
  LET m == Matching(parts, MidX(env), MidY(env))
  IN IF m # {} THEN Min(m) ELSE Len(parts)

\* the key lines 131 and 136 yield with the feature
YieldedKey(l, parts, env) == partition_to_layer_name(l, parts[ChosenTile(parts, env)])

\* layer_names (line 109)
LayerNamesOf(l, parts) == [i \in 1..Len(parts) |-> partition_to_layer_name(l, parts[i])]

\* ------------------------------------------------------------------ state
VARIABLES
  pc,          \* where the program is
  exc,         \* the exception that ended the run, or NoException
  log,         \* the messages logged so far
  count,       \* LatLonPartition.count
  layer,       \* LatLonPartition.layer: index of the layer set, or NoLayer
  extent,      \* GetExtent() of that layer
  partitions,  \* LatLonPartition.partitions: None or Some(the tile sequence)
  extentCalls, \* how often create_partitions went past line 71 (GetExtent calls)
  nfeat,       \* GetFeatureCount() of that layer
  fidx,        \* features the generator of __call__ has consumed
  nullGeom,    \* per consumed feature: was its geometry None
  feature,     \* None, or Some(geometry of the feature consumed last); kept by
               \* TilesCall only, Layer.partition needs no more than nullGeom
  key,         \* None, or Some(key yielded last by __call__ with a feature)
  names,       \* Layer.partition: what partition.layer_names() returned
  kidx,        \* Layer.partition: keys of names handled by the loop of line 153
  outKeys,     \* Layer.partition: keys of the dict `partitions`, insertion order
  outLayer,    \* Layer.partition: key -> features appended to its out_layer
  created,     \* Layer.partition: CreateDataSource calls
  synced,      \* Layer.partition: the SyncToDisk loop has run
  dirExists,   \* Path(name).exists() for the source's output directory
  nlayers,     \* data_source.GetLayerCount()
  lidx,        \* Source.partition: the layer the loop is at (from 1)
  ret,         \* what the last Layer.partition call returned
  result,      \* Source.partition: its list `partitions`
  entry,       \* "cli": started from the command line; "api": main(**kwargs)
  indir,       \* os.path.exists(indir)
  outdir,      \* outdir on disk: "absent", "dir", "file", or "new" once main made it
  removed,     \* main removed an existing outdir
  opened,      \* ogr.Open calls
  srcDirs,     \* source output directories that exist under outdir
  nsrc,        \* number of shapefiles os.walk found
  srcIdx,      \* sources main has handled
  mainParts,   \* main: its list `partitions` of (src.name, part)
  project      \* None, or Some(number of layers added to the project written)

objVars == <<count, layer, extent, partitions, extentCalls>>
genVars == <<nfeat, fidx, nullGeom, feature, key>>
outVars == <<names, kidx, outKeys, outLayer, created, synced>>
srcVars == <<dirExists, nlayers, lidx, ret, result>>
mainVars == <<entry, indir, outdir, removed, opened, srcDirs, nsrc, srcIdx, mainParts, project>>
vars == <<pc, exc, log, objVars, genVars, outVars, srcVars, mainVars>>

\* LatLonPartition(count): line 56 calls super(Partition).__init__(), which
\* never runs Partition.__init__, so self.layer stays unset
NewPartitionObject ==
  /\ layer = NoLayer
  /\ extent = None
  /\ partitions = None
  /\ extentCalls = 0

NoLayerLocals ==
  /\ nfeat = 0 /\ fidx = 0 /\ nullGeom = <<>> /\ feature = None /\ key = None
  /\ names = <<>> /\ kidx = 0 /\ outKeys = <<>> /\ outLayer = <<>>
  /\ created = 0 /\ synced = FALSE

NoMain ==
  /\ entry = "api" /\ indir = TRUE /\ outdir = "absent" /\ removed = FALSE
  /\ opened = 0 /\ srcDirs = {} /\ nsrc = 0 /\ srcIdx = 0 /\ mainParts = <<>>
  /\ project = None

\* -------------------------------------------- LatLonPartition methods
\* faulty variant of NeedsBuild: no memo, the scheme is computed on every call
NeedsBuildAlways == TRUE

\* lines 65-71: the scheme is computed only while self.partitions is None
NeedsBuild == partitions = None

\* create_partitions raises (line 85 or 86)
CreateRaises == NeedsBuild /\ BuildRaises(count)

\* create_partitions, lines 64-104
create_partitions ==
  IF NeedsBuild
  THEN /\ extentCalls' = extentCalls + 1
       /\ partitions' = IF CreateRaises THEN partitions ELSE Some(BuildTiles(extent, count))
  ELSE UNCHANGED <<partitions, extentCalls>>

\* faulty variant of CreateFeature: the feature is written twice
CreateFeatureTwice(coll, f) == coll \o <<f, f>>

\* out_layer.CreateFeature(feature), line 178
CreateFeature(coll, f) == Append(coll, f)

\* ------------------------------------------------ Source.partition
\* lines 205-215 and 143-147: the loop reaches a layer whose output
\* directory exists; Layer.partition logs and returns []
LayerPartitionAbort ==
  /\ pc = "source" /\ lidx <= nlayers
  /\ dirExists
  /\ log' = Append(log, "error: already exists")
  /\ ret' = <<>>
  /\ result' = result \o <<>>
  /\ lidx' = lidx + 1
  /\ UNCHANGED <<pc, exc, objVars, genVars, outVars, dirExists, nlayers, mainVars>>

\* lines 149-152: mkdir, set_layer, an empty dict. The layer handed over has
\* some extent and some number of features.
MakeDirAndSetLayer ==
  /\ pc = "source" /\ lidx <= nlayers
  /\ dirExists' = TRUE
  /\ layer' = lidx
  /\ \E e \in FlowExtents, n \in 0..MaxFeatures : extent' = e /\ nfeat' = n
  /\ fidx' = 0 /\ nullGeom' = <<>> /\ feature' = None /\ key' = None
  /\ names' = <<>> /\ kidx' = 0 /\ outKeys' = <<>> /\ outLayer' = <<>>
  /\ created' = 0 /\ synced' = FALSE
  /\ pc' = "names"
  /\ UNCHANGED <<exc, log, count, partitions, extentCalls, nlayers, lidx, ret, result, mainVars>>

\* faulty variant of LayerPartitionBegin: without the exists() test of line 145
LayerPartitionBeginAnyway == MakeDirAndSetLayer

\* lines 143-152: the directory is absent, Layer.partition goes ahead
LayerPartitionBegin ==
  /\ ~dirExists
  /\ MakeDirAndSetLayer

\* line 153: partition.layer_names(), lines 106-109
CallLayerNames ==
  /\ pc = "names"
  /\ create_partitions
  /\ IF CreateRaises
     THEN /\ pc' = "crashed" /\ exc' = ZeroDivisionError
          /\ UNCHANGED <<names, kidx>>
     ELSE /\ names' = LayerNamesOf(layer, partitions'[1])
          /\ kidx' = 0
          /\ pc' = "create"
          /\ exc' = exc
  /\ UNCHANGED <<log, count, layer, extent, genVars, outKeys, outLayer, created, synced,
                 srcVars, mainVars>>

\* lines 153-167, one pass of the loop: a new data source and out_layer for
\* the key; a key met before replaces the dict entry (and its file, 155-156)
CreateOutput ==
  /\ pc = "create" /\ kidx < Len(names)
  /\ LET k == names[kidx + 1]
     IN /\ outKeys' = IF \E i \in 1..Len(outKeys) : outKeys[i] = k
                      THEN outKeys ELSE Append(outKeys, k)
        /\ outLayer' = [x \in (DOMAIN outLayer) \cup {k} |->
                          IF x = k THEN <<>> ELSE outLayer[x]]
  /\ created' = created + 1
  /\ kidx' = kidx + 1
  /\ UNCHANGED <<pc, exc, log, objVars, genVars, names, synced, srcVars, mainVars>>

\* lines 169-170 and 111-115: the loop over partition() starts the
\* generator, which calls create_partitions again
StartGenerator ==
  /\ pc = "create" /\ kidx = Len(names)
  /\ create_partitions
  /\ IF CreateRaises
     THEN pc' = "crashed" /\ exc' = ZeroDivisionError
     ELSE pc' = "classify" /\ exc' = exc
  /\ UNCHANGED <<log, count, layer, extent, genVars, outVars, srcVars, mainVars>>

\* lines 115-136 and 176-178: the generator reads the next feature and
\* yields; the driver appends the feature to the out_layer of the key
ClassifyFeature ==
  /\ pc = "classify" /\ fidx < nfeat
  /\ \E g \in Geometries(extent) :
       /\ IF g = NullGeometry
          THEN /\ log' = Append(log, "warning: NULL geometry")
               /\ key' = None
               /\ nullGeom' = Append(nullGeom, TRUE)
               /\ fidx' = fidx + 1
               /\ UNCHANGED <<pc, exc, outLayer>>
          ELSE IF ChosenTile(partitions[1], g) = 0
          THEN /\ pc' = "crashed" /\ exc' = IndexError
               /\ UNCHANGED <<log, key, nullGeom, fidx, outLayer>>
          ELSE LET k == YieldedKey(layer, partitions[1], g)
               IN /\ key' = Some(k)
                  /\ nullGeom' = Append(nullGeom, FALSE)
                  /\ fidx' = fidx + 1
                  /\ log' = log
                  /\ IF k \in DOMAIN outLayer
                     THEN /\ outLayer' = [outLayer EXCEPT ![k] = CreateFeature(@, fidx + 1)]
                          /\ UNCHANGED <<pc, exc>>
                     ELSE /\ pc' = "crashed" /\ exc' = KeyError
                          /\ outLayer' = outLayer
  /\ UNCHANGED <<objVars, nfeat, feature, names, kidx, outKeys, created, synced, srcVars,
                 mainVars>>

\* lines 180-181: every data source of the dict is synced
SyncLoop ==
  /\ pc = "classify"
  /\ synced' = TRUE
  /\ pc' = "return"
  /\ UNCHANGED <<exc, log, objVars, genVars, names, kidx, outKeys, outLayer, created,
                 srcVars, mainVars>>

\* faulty variant of SyncToDisk: does not wait for the generator to end
SyncEarly == SyncLoop

\* lines 169-181: the loop over partition() ends with the generator, then
\* the sync loop runs
SyncToDisk ==
  /\ fidx = nfeat
  /\ SyncLoop

\* lines 183 and 214: Layer.partition returns the keys, Source.partition
\* extends its list and moves to the next layer
LayerPartitionReturn ==
  /\ pc = "return"
  /\ ret' = outKeys
  /\ result' = result \o outKeys
  /\ lidx' = lidx + 1
  /\ pc' = "source"
  /\ UNCHANGED <<exc, log, objVars, genVars, outVars, dirExists, nlayers, mainVars>>

\* line 215
SourcePartitionReturn ==
  /\ pc = "source" /\ lidx > nlayers
  /\ pc' = "returned"
  /\ UNCHANGED <<exc, log, objVars, genVars, outVars, srcVars, mainVars>>

\* src.partition(LatLonPartition(count)) on one data source
Init ==
  /\ pc = "source" /\ exc = NoException /\ log = <<>>
  /\ count \in Counts
  /\ NewPartitionObject
  /\ NoLayerLocals
  /\ dirExists \in BOOLEAN
  /\ nlayers \in 0..MaxLayers
  /\ lidx = 1 /\ ret = NoReturn /\ result = <<>>
  /\ NoMain

Next ==
  \/ LayerPartitionAbort
  \/ LayerPartitionBegin
  \/ CallLayerNames
  \/ CreateOutput
  \/ StartGenerator
  \/ ClassifyFeature
  \/ SyncToDisk
  \/ LayerPartitionReturn
  \/ SourcePartitionReturn

Spec == Init /\ [][Next]_vars

\* ------------------------------------------- the scheme and the classifier
\* A LatLonPartition whose layer is set: layer_names(), then __call__() up
\* to its first yield, over a wider range of extents and envelopes.
TilesLayerNames ==
  /\ pc = "tiles"
  /\ create_partitions
  /\ names' = LayerNamesOf(layer, partitions'[1])
  /\ pc' = "tiles_call"
  /\ UNCHANGED <<exc, log, count, layer, extent, genVars, kidx, outKeys, outLayer, created,
                 synced, srcVars, mainVars>>

TilesCall ==
  /\ pc = "tiles_call"
  /\ create_partitions
  /\ \E g \in Geometries(extent) :
       /\ feature' = Some(g)
       /\ nullGeom' = <<g = NullGeometry>>
       /\ key' = IF g = NullGeometry THEN None ELSE Some(YieldedKey(layer, partitions[1], g))
       /\ log' = IF g = NullGeometry THEN Append(log, "warning: NULL geometry") ELSE log
  /\ fidx' = 1
  /\ pc' = "tiles_done"
  /\ UNCHANGED <<exc, count, layer, extent, nfeat, outVars, srcVars, mainVars>>

InitTiles ==
  /\ pc = "tiles" /\ exc = NoException /\ log = <<>>
  /\ count \in 1..MaxCount
  /\ layer = 1
  /\ extent \in WideExtents
  /\ partitions = None
  /\ extentCalls = 0
  /\ nfeat = 1 /\ fidx = 0 /\ nullGeom = <<>> /\ feature = None /\ key = None
  /\ names = <<>> /\ kidx = 0 /\ outKeys = <<>> /\ outLayer = <<>>
  /\ created = 0 /\ synced = FALSE
  /\ dirExists = TRUE /\ nlayers = 1 /\ lidx = 1 /\ ret = NoReturn /\ result = <<>>
  /\ NoMain

NextTiles ==
  \/ TilesLayerNames
  \/ TilesCall

SpecTiles == InitTiles /\ [][NextTiles]_vars

\* ------------------------------------------------- command line and main
SourceNames == {"out/a", "out/b"}

RECURSIVE Dedup(_)
\* list(dict.keys()) of a dict filled in the order of the sequence
Dedup(seq) ==
  IF seq = <<>> THEN <<>>
  ELSE LET front == Dedup(SubSeq(seq, 1, Len(seq) - 1))
           last == seq[Len(seq)]
       IN IF \E i \in 1..Len(front) : front[i] = last THEN front ELSE Append(front, last)

\* lines 336-354: parse_args, the count test of line 338, then main(**args)
ParseArgs ==
  /\ pc = "cli"
  /\ IF count < 1
     THEN /\ log' = Append(log, "error: You must have at least 1 output layer")
          /\ pc' = "exit"
          /\ exc' = "SystemExit"
     ELSE /\ pc' = "main"
          /\ UNCHANGED <<log, exc>>
  /\ UNCHANGED <<objVars, genVars, outVars, srcVars, mainVars>>

\* lines 229-231
MainNoInput ==
  /\ pc = "main" /\ ~indir
  /\ log' = Append(log, "error: Input directory does not exist")
  /\ pc' = "done"
  /\ UNCHANGED <<exc, objVars, genVars, outVars, srcVars, mainVars>>

\* lines 233-250: an existing outdir is removed, outdir is made, the input
\* tree is walked
MainPrepare ==
  /\ pc = "main" /\ indir
  /\ removed' = (outdir # "absent")
  /\ outdir' = "new"
  /\ \E n \in 0..MaxSources : nsrc' = n
  /\ srcIdx' = 0
  /\ pc' = "sources"
  /\ UNCHANGED <<exc, log, objVars, genVars, outVars, srcVars,
                 entry, indir, opened, srcDirs, mainParts, project>>

\* lines 264-266 and 195-201: ogr.Open gives None
MainSourceInvalid ==
  /\ pc = "sources" /\ srcIdx < nsrc
  /\ opened' = opened + 1
  /\ log' = Append(log, "error: Invalid shapefile")
  /\ srcIdx' = srcIdx + 1
  /\ UNCHANGED <<pc, exc, objVars, genVars, outVars, srcVars,
                 entry, indir, outdir, removed, srcDirs, nsrc, mainParts, project>>

\* lines 264-271: one source is opened and src.partition(LatLonPartition(count))
\* runs to its end (Source.partition and Layer.partition as above, in one
\* step): the source has nl layers, its first layer extent e, and
\* some feature with a geometry or none. Of the log, the errors are kept.
MainSource ==
  /\ pc = "sources" /\ srcIdx < nsrc
  /\ opened' = opened + 1
  /\ \E name \in SourceNames, nl \in 0..MaxLayers, e \in MainExtents, hasGeom \in BOOLEAN :
       IF nl = 0 \/ name \in srcDirs
       THEN /\ log' = log \o [i \in 1..nl |-> "error: already exists"]
            /\ srcIdx' = srcIdx + 1
            /\ UNCHANGED <<pc, exc, srcDirs, mainParts>>
       ELSE /\ srcDirs' = srcDirs \cup {name}
            /\ IF BuildRaises(count)
               THEN /\ pc' = "crashed" /\ exc' = ZeroDivisionError
                    /\ UNCHANGED <<log, srcIdx, mainParts>>
               ELSE IF hasGeom /\ Len(BuildTiles(e, count)) = 0
               THEN /\ pc' = "crashed" /\ exc' = IndexError
                    /\ UNCHANGED <<log, srcIdx, mainParts>>
               ELSE LET keys == Dedup(LayerNamesOf(1, BuildTiles(e, count)))
                    IN /\ mainParts' = mainParts \o [i \in 1..Len(keys) |-> <<name, keys[i]>>]
                       /\ log' = log \o [i \in 1..(nl - 1) |-> "error: already exists"]
                       /\ srcIdx' = srcIdx + 1
                       /\ UNCHANGED <<pc, exc>>
  /\ UNCHANGED <<objVars, genVars, outVars, srcVars,
                 entry, indir, outdir, removed, nsrc, project>>

\* lines 273-290: the project gets the layers that open as valid and is written
MainProject ==
  /\ pc = "sources" /\ srcIdx = nsrc
  /\ \E n \in 0..Len(mainParts) : project' = Some(n)
  /\ pc' = "done"
  /\ UNCHANGED <<exc, log, objVars, genVars, outVars, srcVars,
                 entry, indir, outdir, removed, opened, srcDirs, nsrc, srcIdx, mainParts>>

InitMain ==
  /\ entry \in {"cli", "api"}
  /\ pc = IF entry = "cli" THEN "cli" ELSE "main"
  /\ exc = NoException /\ log = <<>>
  /\ count \in Counts
  /\ NewPartitionObject
  /\ NoLayerLocals
  /\ dirExists = FALSE /\ nlayers = 0 /\ lidx = 1 /\ ret = NoReturn /\ result = <<>>
  /\ indir \in BOOLEAN
  /\ outdir \in {"absent", "dir", "file"}
  /\ removed = FALSE /\ opened = 0 /\ srcDirs = {} /\ nsrc = 0 /\ srcIdx = 0
  /\ mainParts = <<>> /\ project = None

NextMain ==
  \/ ParseArgs
  \/ MainNoInput
  \/ MainPrepare
  \/ MainSourceInvalid
  \/ MainSource
  \/ MainProject

SpecMain == InitMain /\ [][NextMain]_vars

\* ------------------------------------------------------------- properties
\* whole-number points around every extent of the model
PointsX == (0 - NegX - 1)..(MaxX + 1)
PointsY == (0 - 1)..(MaxY + 1)

\* the same ranges in halves (doubled, like the tile bounds)
HalfPointsX == (2 * (0 - NegX - 1))..(2 * (MaxX + 1))
HalfPointsY == (0 - 2)..(2 * (MaxY + 1))

\* C2: for every extent and count n >= 1 the scheme create_partitions builds
\* has exactly n tiles; for n >= 3 the first ceil(n/2) of them are the top
\* row (from minY up to the middle) and the other floor(n/2) the bottom row
\* (from the middle up to maxY).
C2_TileCount ==
  (partitions # None /\ count >= 1) =>
    LET parts == partitions[1]
        top == (count + 1) \div 2
    IN /\ Len(parts) = count
       /\ count >= 3 =>
            /\ \A i \in 1..top : parts[i][3] = 2 * extent[3]
            /\ \A i \in (top + 1)..count : parts[i][4] = 2 * extent[4]
            /\ \A i \in 1..top : \A j \in (top + 1)..count : parts[i][4] = parts[j][3]

C2_Witness ==
  /\ pc = "tiles_call" /\ count = 5 /\ Len(partitions[1]) = 5
  /\ extent[1] < extent[2] /\ extent[3] < extent[4]

\* C3: a feature with a geometry is yielded with the identifier of the first
\* tile, in scheme order, with tileMinX < x <= tileMaxX and tileMinY < y <=
\* tileMaxY for x = floor((envMinX + envMaxX) / 2), y = floor((envMinY +
\* envMaxY) / 2), and with the identifier of the last tile when no tile has
\* it; with count 1 that is the full-extent tile; for extent (0,100,0,100)
\* and count 4 the midpoint (10,10) gives the first tile (0,50,0,50).
C3_FirstMatchElseLast ==
  /\ (pc = "tiles_done" /\ feature # None /\ feature[1] # NullGeometry) =>
       LET env == feature[1]
           parts == partitions[1]
           id(i) == partition_to_layer_name(layer, parts[i])
           In(i, x, y) == /\ parts[i][1] < 2 * x /\ 2 * x <= parts[i][2]
                          /\ parts[i][3] < 2 * y /\ 2 * y <= parts[i][4]
       IN \A x \in PointsX, y \in PointsY :
            ( /\ 2 * x <= env[1] + env[2] /\ env[1] + env[2] < 2 * x + 2
              /\ 2 * y <= env[3] + env[4] /\ env[3] + env[4] < 2 * y + 2 ) =>
              /\ key # None
              /\ \A i \in 1..Len(parts) :
                   (In(i, x, y) /\ \A j \in 1..(i - 1) : ~In(j, x, y)) => key[1] = id(i)
              /\ (\A i \in 1..Len(parts) : ~In(i, x, y)) => key[1] = id(Len(parts))
              /\ count = 1 =>
                   key[1] = partition_to_layer_name(layer,
                              <<2 * extent[1], 2 * extent[2], 2 * extent[3], 2 * extent[4]>>)
  /\ BuildTiles(<<0, 100, 0, 100>>, 4)[1] = <<0, 100, 0, 100>>
  /\ YieldedKey(1, BuildTiles(<<0, 100, 0, 100>>, 4), <<10, 10, 10, 10>>)
       = "L1:0.0-50.0-0.0-50.0"

\* a feature inside the extent whose point no tile holds goes to the last of
\* several tiles
C3_Witness ==
  /\ pc = "tiles_done" /\ count >= 3
  /\ feature # None /\ feature[1] # NullGeometry
  /\ Matching(partitions[1], MidX(feature[1]), MidY(feature[1])) = {}
  /\ key = Some(names[count])
  /\ names[count] # names[1]

\* C8: at most one tile of a scheme holds any point under the test of the
\* classifier (tileMinX < x <= tileMaxX and tileMinY < y <= tileMaxY); the
\* points are the whole and the half numbers around the extent.
C8_NonOverlapping ==
  (pc = "tiles_call" /\ count >= 1) =>
    \A px \in HalfPointsX, py \in HalfPointsY :
       Cardinality({i \in 1..Len(partitions[1]) : InTile(partitions[1][i], px, py)}) <= 1

\* a point on the edge two neighbouring tiles share is held by one of them
C8_Witness ==
  /\ pc = "tiles_call" /\ count >= 3
  /\ \E x \in PointsX, y \in PointsY :
       /\ Matching(partitions[1], x, y) = {1}
       /\ 2 * x = partitions[1][1][2]
       /\ 2 * x = partitions[1][2][1]
       /\ partitions[1][2][1] < partitions[1][2][2]

\* how often feature f sits in the output collections of the layer
Occurrences(f) ==
  Cardinality({ki \in UNION {{<<k, i>> : i \in 1..Len(outLayer[k])} : k \in DOMAIN outLayer} :
                 outLayer[ki[1]][ki[2]] = f})

\* Layer.partition has run on a layer (the directory was absent) and returned
LayerReturned == layer # NoLayer /\ lidx > layer

\* C1: once Layer.partition with a LatLonPartition of count >= 1 returns
\* (output directory absent beforehand), every feature with a geometry sits
\* in exactly one output collection, exactly once, and every feature with a
\* null geometry in none.
C1_EachFeatureOnce ==
  (LayerReturned /\ count >= 1) =>
    /\ Len(nullGeom) = nfeat
    /\ \A f \in 1..nfeat : Occurrences(f) = IF nullGeom[f] THEN 0 ELSE 1

C1_Witness ==
  /\ LayerReturned /\ count >= 3
  /\ nfeat = 2 /\ nullGeom = <<FALSE, TRUE>>
  /\ Len(outKeys) >= 2
  /\ Occurrences(1) = 1 /\ Occurrences(2) = 0

\* C4: Layer.partition called while the output directory exists returns no
\* identifier, logs an error and changes nothing else: no directory or output
\* collection is made or written, the partition object keeps its layer and
\* scheme, no feature is read.
C4_AbortLeavesAllUnchanged ==
  [][(pc = "source" /\ lidx <= nlayers /\ dirExists) =>
       /\ ret' = <<>>
       /\ result' = result
       /\ log' = Append(log, "error: already exists")
       /\ UNCHANGED <<dirExists, objVars, genVars, outVars, exc>>]_vars

\* the second layer of a source is turned away after the first was written
C4_Witness ==
  /\ pc = "source" /\ lidx = 3 /\ layer = 1 /\ created > 0
  /\ ret = <<>> /\ result = outKeys /\ result # <<>>
  /\ log # <<>> /\ log[Len(log)] = "error: already exists"

\* the step Layer.partition is at, for the layer it runs on
Rank ==
  IF layer = NoLayer THEN 0
  ELSE CASE pc = "names" -> 1
         [] pc = "create" -> 2
         [] pc = "classify" -> 3
         [] pc = "return" -> 4
         [] pc \in {"source", "returned"} -> 5
         [] OTHER -> 6

Appended == UNION {{outLayer[k][i] : i \in 1..Len(outLayer[k])} : k \in DOMAIN outLayer}

C7_SchemeBuiltOnce ==
  /\ [][partitions # None =>
          (partitions' = partitions /\ extentCalls' = extentCalls /\ layer' = layer)]_vars
  /\ []((partitions # None /\ pc # "names") => names = LayerNamesOf(layer, partitions[1]))
  /\ [](extentCalls <= 1)

\* __call__ has called create_partitions a second time
C7_Witness ==
  /\ pc = "classify" /\ partitions # None /\ extentCalls = 1 /\ count >= 3
  /\ extent[1] < extent[2]

\* C9: the n identifiers of a scheme are pairwise distinct, so
\* Layer.partition creates n output collections and returns n identifiers.
C9_DistinctIdentifiers ==
  (pc = "return" /\ count >= 1) =>
    /\ \A i \in 1..Len(names) : \A j \in 1..Len(names) : i # j => names[i] # names[j]
    /\ Len(outKeys) = count
    /\ Cardinality(DOMAIN outLayer) = count

\* C10: Source.partition on a source of k >= 2 layers whose directory is
\* absent returns the identifiers of the first layer only; each later layer
\* finds the directory, logs an error and adds no identifier, no output
\* collection and no change to the layer or scheme of the partition object.
C10_OnlyFirstLayer ==
  /\ (~dirExists /\ nlayers >= 2) =>
       [](pc = "returned" =>
            /\ layer = 1
            /\ result = outKeys
            /\ created = Len(names)
            /\ Cardinality({i \in 1..Len(log) : log[i] = "error: already exists"})
                 = nlayers - 1)
  /\ [][(pc = "source" /\ lidx >= 2 /\ lidx <= nlayers) =>
          /\ ret' = <<>>
          /\ result' = result
          /\ log' = Append(log, "error: already exists")
          /\ UNCHANGED <<objVars, outVars>>]_vars

C10_Witness ==
  /\ pc = "returned" /\ nlayers = 2 /\ layer = 1
  /\ Len(result) >= 2 /\ result = outKeys
  /\ log # <<>> /\ log[Len(log)] = "error: already exists"

\* C6: a count below 1 is turned down before anything happens, from the
\* command line and from main(layers=...) alike: the error is reported, an
\* existing outdir is not removed, nothing is created, no source is opened.
C6_BadCountRejected ==
  count < 1 =>
    /\ ~removed /\ outdir # "new"
    /\ opened = 0 /\ srcDirs = {} /\ mainParts = <<>>
    /\ exc \notin {ZeroDivisionError, IndexError}
    /\ pc \in {"exit", "done", "crashed"} =>
         \E i \in 1..Len(log) :
            log[i] \in {"error: You must have at least 1 output layer",
                        "error: Input directory does not exist"}
====
